---- MODULE Spec2Model ----
(***************************************************************************)
(* A model of grafana_api.GrafanaAPI: the client object (base URL, bearer  *)
(* token, TLS-verify flag, hostname-scoped logger adapter), the process-   *)
(* wide logger 'grafana_api' and its handler list, the fourteen endpoint   *)
(* operations and the response normalization _enrich_error_response.       *)
(*                                                                         *)
(* Python values are tagged tuples (PyInt, PyStr, PyBool, PyDict, PyList,  *)
(* None) so that values of different Python types are never equal.  A dict *)
(* is a function from its keys to values.  Text is a TLA+ string and       *)
(* f-strings are concatenations.                                           *)
(***************************************************************************)
EXTENDS Integers, Sequences, FiniteSets, TLC

VARIABLES
    clients,      \* client id -> the fields of that GrafanaAPI object, NoClient
                  \* until it is constructed
    handlers,     \* handler list of the process-wide logger 'grafana_api'
    callerData,   \* the caller's dashboard-definition mapping (a mutable dict)
    last          \* the call that has just completed, until the caller takes its
                  \* outcome: request(s) sent, outcome, result, log records written

vars == <<clients, handlers, callerData, last>>

----------------------------------------------------------------------------
(* Bounds of the model *)

\* GrafanaAPI objects constructed in one process (each adds two handlers).
MaxClients == 2

----------------------------------------------------------------------------
(* Python values *)

None == <<"None">>
PyInt(n) == <<"int", n>>
PyStr(s) == <<"str", s>>
PyBool(b) == <<"bool", b>>
PyDict(f) == <<"dict", f>>
PyList(s) == <<"list", s>>

IsDict(v) == v[1] = "dict"

EmptyDict == [k \in {} |-> None]

\* d[k] = v
SetItem(d, k, v) == [x \in (DOMAIN d) \cup {k} |-> IF x = k THEN v ELSE d[x]]

\* str(n) for n >= 0, as an f-string formats an int
Digit(d) ==
    CASE d = 0 -> "0" [] d = 1 -> "1" [] d = 2 -> "2" [] d = 3 -> "3" [] d = 4 -> "4"
      [] d = 5 -> "5" [] d = 6 -> "6" [] d = 7 -> "7" [] d = 8 -> "8" [] d = 9 -> "9"

RECURSIVE IntStr(_)
IntStr(n) == IF n < 10 THEN Digit(n) ELSE IntStr(n \div 10) \o Digit(n % 10)

\* f'{v}' for the values a dashboard title takes here
Format(v) ==
    CASE v[1] = "str" -> v[2]
      [] v[1] = "int" -> IntStr(v[2])
      [] v[1] = "None" -> "None"
      [] OTHER -> "?"

----------------------------------------------------------------------------
(* HTTP responses.  A body is empty (zero bytes), a JSON object given by   *)
(* its key/value pairs in wire order, a JSON array, or bytes that are not  *)
(* JSON.                                                                   *)

EmptyBody == [kind |-> "empty", pairs |-> <<>>]
ObjectBody(pairs) == [kind |-> "object", pairs |-> pairs]
ArrayBody == [kind |-> "array", pairs |-> <<>>]
GarbageBody == [kind |-> "garbage", pairs |-> <<>>]

\* len(response.content): the two brackets at least, unless there are no bytes
ContentLength(body) == IF body.kind = "empty" THEN 0 ELSE 2 + Len(body.pairs)

DecodeError == <<"JSONDecodeError">>

\* response.json(): an object's pairs become a dict, a repeated key keeping
\* its last value; bytes that are not JSON do not decode
JsonDecode(body) ==
    CASE body.kind = "object" ->
            LET ps == body.pairs
                keys == {ps[i][1] : i \in DOMAIN ps}
                lastIdx(k) == CHOOSE i \in DOMAIN ps :
                                /\ ps[i][1] = k
                                /\ \A j \in DOMAIN ps : ps[j][1] = k => j <= i
            IN PyDict([k \in keys |-> ps[lastIdx(k)][2]])
      [] body.kind = "array" -> PyList(<<>>)
      [] OTHER -> DecodeError

Responses ==
    { [status_code |-> 200, body |-> EmptyBody],
      [status_code |-> 404, body |-> EmptyBody],
      [status_code |-> 200, body |-> ObjectBody(<< <<"id", PyInt(1)>>, <<"uid", PyStr("xyz")>> >>)],
      [status_code |-> 200, body |-> ObjectBody(<< <<"customStatusCode", PyStr("kept")>> >>)],
      [status_code |-> 201, body |-> ObjectBody(<< <<"message", PyStr("Created")>> >>)],
      [status_code |-> 404, body |-> ObjectBody(<< <<"message", PyStr("Not found")>> >>)],
      [status_code |-> 404, body |-> ObjectBody(<< <<"customStatusCode", PyStr("kept")>>,
                                                   <<"message", PyStr("Not found")>> >>)],
      [status_code |-> 200, body |-> ArrayBody],
      [status_code |-> 404, body |-> ArrayBody],
      [status_code |-> 502, body |-> GarbageBody] }

----------------------------------------------------------------------------
(* Logging: the logger 'grafana_api' is one object per process.            *)

INFO == 20
WARNING == 30

LevelName(level) == IF level = WARNING THEN "WARNING" ELSE "INFO"

\* the two handlers one construction attaches
FileHandler == [sink |-> "file", level |-> INFO]
ConsoleHandler == [sink |-> "console", level |-> WARNING]

\* logger.addHandler(file_handler); logger.addHandler(console_handler)
AddHandlers(hs) == hs \o <<FileHandler, ConsoleHandler>>

RECURSIVE Emit(_, _, _)
\* Logger.callHandlers: every attached handler whose level admits the record
\* writes it to its sink; result is the records written, in order
Emit(hs, sink, rec) ==
    IF hs = <<>> THEN <<>>
    ELSE (IF Head(hs).sink = sink /\ rec.levelno >= Head(hs).level THEN <<rec>> ELSE <<>>)
         \o Emit(Tail(hs), sink, rec)

\* self._logger.warning(msg) / self._logger.info(msg): the adapter adds hostname
Log(self, hs, level, msg) ==
    LET rec == [levelno |-> level, levelname |-> LevelName(level),
                hostname |-> self.hostname, message |-> msg]
    IN [file |-> Emit(hs, "file", rec), console |-> Emit(hs, "console", rec)]

NoLog == [file |-> <<>>, console |-> <<>>]

----------------------------------------------------------------------------
(* _enrich_error_response *)

NoResult == <<"no result">>

Returned(result, log) ==
    [outcome |-> "returned", exc |-> "", result |-> result,
     file |-> log.file, console |-> log.console]

Raised(exc, log) ==
    [outcome |-> "raised", exc |-> exc, result |-> NoResult,
     file |-> log.file, console |-> log.console]

\* a status test that lets every 2xx and 3xx status through
IsErrorStatusFrom400(response) == response.status_code >= 400

\* the empty-body result under the key 'statusCode'
EmptyResultStatusCodeKey(response) ==
    PyDict(SetItem(EmptyDict, "statusCode", PyInt(response.status_code)))

\* a success path that injects the status code as the failure path does
SuccessResultWithStatus(response) ==
    LET decoded == JsonDecode(response.body)
    IN IF decoded # DecodeError /\ IsDict(decoded)
       THEN PyDict(SetItem(decoded[2], "customStatusCode", PyInt(response.status_code)))
       ELSE decoded

\* len(response.content) == 0
IsEmptyResponse(response) == ContentLength(response.body) = 0

\* response.status_code != 200
IsErrorStatus(response) == response.status_code # 200

\* {'customStatusCode': response.status_code}
EmptyResult(response) ==
    PyDict(SetItem(EmptyDict, "customStatusCode", PyInt(response.status_code)))

\* response_dict['customStatusCode'] = response.status_code
ErrorResult(response_dict, response) ==
    PyDict(SetItem(response_dict[2], "customStatusCode", PyInt(response.status_code)))

\* return response.json()
SuccessResult(response) == JsonDecode(response.body)

EnrichErrorResponse(self, hs, response, message) ==
    IF IsEmptyResponse(response)
    THEN Returned(EmptyResult(response), Log(self, hs, WARNING, "Empty response returned."))
    ELSE IF IsErrorStatus(response)
    THEN LET response_dict == JsonDecode(response.body)
         IN IF response_dict = DecodeError THEN Raised("JSONDecodeError", NoLog)
            ELSE IF ~IsDict(response_dict) THEN Raised("TypeError", NoLog)
            ELSE Returned(ErrorResult(response_dict, response),
                          Log(self, hs, WARNING,
                              "The request returns a non 200 status code: "
                                  \o IntStr(response.status_code)))
    ELSE LET log == Log(self, hs, INFO, message)
             decoded == SuccessResult(response)
         IN IF decoded = DecodeError THEN Raised("JSONDecodeError", log)
            ELSE Returned(decoded, log)

----------------------------------------------------------------------------
(* The client object *)

ClientIds == 1..MaxClients

\* constructor arguments (url, token, verify): two values of each
ClientConfigs ==
    { <<"https://grafana.example.com", "abc123", TRUE>>,
      <<"https://grafana.example.com", "s3cret", FALSE>>,
      <<"http://localhost:3000", "abc123", FALSE>> }

NoClient == [url |-> "", hostname |-> "", token |-> "", verify |-> FALSE, built |-> FALSE]

\* urlparse(url).hostname
UrlHostname(url) ==
    CASE url = "https://grafana.example.com" -> "grafana.example.com"
      [] url = "http://localhost:3000" -> "localhost"

\* the fields __init__ sets on self
NewClient(url, token, verify) ==
    [url |-> url, hostname |-> UrlHostname(url), token |-> token, verify |-> verify,
     built |-> TRUE]

\* the token sent without its scheme
AuthHeadersNoScheme(self) == [Authorization |-> self.token]

\* headers={'Authorization': f'Bearer {self._token}'}
AuthHeaders(self) == [Authorization |-> "Bearer " \o self.token]

NoJson == <<"no json">>

\* requests.<method>(url, headers=..., json=..., verify=self._verify)
HttpRequest(method, url, self, json) ==
    [method |-> method, url |-> url, headers |-> AuthHeaders(self), json |-> json,
     verify |-> self.verify]

----------------------------------------------------------------------------
(* Inputs of the operations *)

Uids == {"xyz", "abc"}
Names == {"prometheus"}
DefaultLimit == 1000
Limits == {DefaultLimit, 5}

\* a parameter with default None: omitted, or supplied with a value
FolderIds == {None, PyInt(0)}
FolderUids == {None, PyStr("")}
Messages == {None, PyStr("")}
Overwrites == {None, PyBool(FALSE)}

\* dashboard-definition mappings a caller may hold
DashboardDefs ==
    { [dashboard |-> PyDict([title |-> PyStr("cpu")])],
      [dashboard |-> PyDict(EmptyDict)],
      EmptyDict,
      [dashboard |-> PyDict([title |-> PyStr("cpu")]), folderId |-> PyInt(3),
       message |-> PyStr("from definition")] }

Titles == {"ops"}
FolderUidArgs == {None, PyStr(""), PyStr("f1")}

\* access: omitted (the default applies) or supplied
Omitted == <<"omitted">>
AccessArgs == {Omitted, PyStr("direct")}
DatasourceExtras ==
    { None,
      PyDict([access |-> PyStr("server")]),
      PyDict([name |-> PyStr("renamed"), basicAuth |-> PyBool(TRUE)]) }

----------------------------------------------------------------------------
(* Requests and success messages of the operations *)

\* a truthiness test in place of the None test: 0, '' and False are dropped
SuppliedTruthy(x) == x \notin {None, PyInt(0), PyStr(""), PyBool(FALSE)}

\* payload = additional_data: the caller's own dict, no copy
PayloadObjectAlias(additional_data) == additional_data

\* x is not None
Supplied(x) == x # None

\* payload = additional_data.copy(): the object the name payload is bound to
PayloadObject(additional_data) == "copy"

\* if <arg> is not None: payload[<key>] = <arg>
SetIfSupplied(heap, obj, key, arg) ==
    IF Supplied(arg) THEN [heap EXCEPT ![obj] = SetItem(@, key, arg)] ELSE heap

\* lines 46-58: the heap after the payload is built; "additional_data" is the
\* caller's dict, "copy" the dict that .copy() made
CreateDashboardHeap(data, folder_id, folder_uid, message, overwrite) ==
    LET payload == PayloadObject("additional_data")
        h0 == [obj \in {"additional_data", "copy"} |-> data]
        h1 == SetIfSupplied(h0, payload, "folderId", folder_id)
        h2 == SetIfSupplied(h1, payload, "folderUid", folder_uid)
        h3 == SetIfSupplied(h2, payload, "message", message)
    IN SetIfSupplied(h3, payload, "overwrite", overwrite)

CreateDashboardRequest(self, payload) ==
    HttpRequest("POST", self.url \o "/api/dashboards/db", self, PyDict(payload))

\* f'Dashboard created with the name {additional_data["dashboard"]["title"]}.'
\* a missing key raises KeyError while the argument is evaluated
CreateDashboardMessage(additional_data) ==
    IF "dashboard" \notin DOMAIN additional_data THEN [exc |-> "KeyError", text |-> ""]
    ELSE IF "title" \notin DOMAIN additional_data["dashboard"][2]
    THEN [exc |-> "KeyError", text |-> ""]
    ELSE [exc |-> "",
          text |-> "Dashboard created with the name "
                     \o Format(additional_data["dashboard"][2]["title"]) \o "."]

GetDashboardByUidRequest(self, uid) ==
    HttpRequest("GET", self.url \o "/api/dashboards/uid/" \o uid, self, NoJson)

DeleteDashboardByUidRequest(self, uid) ==
    HttpRequest("DELETE", self.url \o "/api/dashboards/uid/" \o uid, self, NoJson)

GetAllDashboardsRequest(self) ==
    HttpRequest("GET", self.url \o "/api/search?type=dash-db", self, NoJson)

GetAllDatasourcesRequest(self) ==
    HttpRequest("GET", self.url \o "/api/datasources", self, NoJson)

GetDatasourceByUidRequest(self, uid) ==
    HttpRequest("GET", self.url \o "/api/datasources/uid/" \o uid, self, NoJson)

GetDatasourceByNameRequest(self, name) ==
    HttpRequest("GET", self.url \o "/api/datasources/name/" \o name, self, NoJson)

\* a merge in which the keys already set win
DictUpdateKeepExisting(d, other) ==
    [k \in (DOMAIN d) \cup (DOMAIN other) |-> IF k \in DOMAIN d THEN d[k] ELSE other[k]]

\* dict.update: every entry of other set in d
DictUpdate(d, other) ==
    [k \in (DOMAIN d) \cup (DOMAIN other) |-> IF k \in DOMAIN other THEN other[k] ELSE d[k]]

\* the default of the access parameter
DefaultAccess == PyStr("proxy")

\* lines 131-134
CreateDatasourcePayload(name, type_, url, access, additional_data) ==
    LET payload == [name |-> PyStr(name), type |-> PyStr(type_), url |-> PyStr(url),
                    access |-> IF access = Omitted THEN DefaultAccess ELSE access]
    IN IF additional_data # None THEN DictUpdate(payload, additional_data[2]) ELSE payload

CreateDatasourceRequest(self, payload) ==
    HttpRequest("POST", self.url \o "/api/datasources/", self, PyDict(payload))

DeleteDatasourceByUidRequest(self, uid) ==
    HttpRequest("DELETE", self.url \o "/api/datasources/uid/" \o uid, self, NoJson)

GetDatasourceHealthByUidRequest(self, uid) ==
    HttpRequest("GET", self.url \o "/api/datasources/uid/" \o uid \o "/health", self, NoJson)

GetAllFoldersRequest(self, limit) ==
    HttpRequest("GET", self.url \o "/api/folders?limit=" \o IntStr(limit), self, NoJson)

GetFolderByUidRequest(self, uid) ==
    HttpRequest("GET", self.url \o "/api/folders/" \o uid, self, NoJson)

\* a payload that carries uid whether supplied or not
CreateFolderPayloadAlwaysUid(title, uid) ==
    SetItem(SetItem(EmptyDict, "uid", uid), "title", PyStr(title))

\* lines 187-192
CreateFolderPayload(title, uid) ==
    LET p0 == EmptyDict
        p1 == IF Supplied(uid) THEN SetItem(p0, "uid", uid) ELSE p0
    IN SetItem(p1, "title", PyStr(title))

CreateFolderRequest(self, payload) ==
    HttpRequest("POST", self.url \o "/api/folders", self, PyDict(payload))

DeleteFolderByUidRequest(self, uid) ==
    HttpRequest("DELETE", self.url \o "/api/folders/" \o uid, self, NoJson)

----------------------------------------------------------------------------
(* State machine *)

NoCall ==
    [client |-> 0, op |-> "none", args |-> <<>>, requests |-> <<>>,
     response |-> [status_code |-> 0, body |-> EmptyBody], reached |-> FALSE,
     outcome |-> "none", exc |-> "", result |-> NoResult, file |-> <<>>, console |-> <<>>]

Init ==
    /\ clients = [c \in ClientIds |-> NoClient]
    /\ handlers = <<>>
    /\ callerData \in DashboardDefs
    /\ last = NoCall

\* GrafanaAPI(url, token, verify)
Construct(c) ==
    \E cfg \in ClientConfigs :
        /\ last = NoCall
        /\ ~clients[c].built
        /\ clients' = [clients EXCEPT ![c] = NewClient(cfg[1], cfg[2], cfg[3])]
        /\ handlers' = AddHandlers(handlers)
        /\ UNCHANGED <<callerData, last>>

\* the caller takes another dashboard definition in hand
CallerRebind ==
    \E d \in DashboardDefs :
        /\ last = NoCall
        /\ d # callerData
        /\ callerData' = d
        /\ UNCHANGED <<clients, handlers, last>>

\* the operations are synchronous: a call on c begins when the caller is in no
\* other call, on a constructed client
Ready(c) == last = NoCall /\ clients[c].built

\* the caller takes the outcome of the completed call
Return ==
    /\ last # NoCall
    /\ last' = NoCall
    /\ UNCHANGED <<clients, handlers, callerData>>

\* the call's one request went out, response came back, and the operation
\* hands it with its success message to _enrich_error_response
Normalize(c, op, args, request, response, message) ==
    LET n == EnrichErrorResponse(clients[c], handlers, response, message)
    IN /\ last' = [client |-> c, op |-> op, args |-> args, requests |-> <<request>>,
                   response |-> response, reached |-> TRUE, outcome |-> n.outcome,
                   exc |-> n.exc, result |-> n.result, file |-> n.file,
                   console |-> n.console]
       /\ UNCHANGED <<clients, handlers>>

\* the operation raised after its request and before _enrich_error_response
RaiseAfterRequest(c, op, args, request, response, exc) ==
    /\ last' = [client |-> c, op |-> op, args |-> args, requests |-> <<request>>,
                response |-> response, reached |-> FALSE, outcome |-> "raised",
                exc |-> exc, result |-> NoResult, file |-> <<>>, console |-> <<>>]
    /\ UNCHANGED <<clients, handlers>>

create_dashboard(c) ==
    \E folder_id \in FolderIds, folder_uid \in FolderUids, message \in Messages,
       overwrite \in Overwrites, response \in Responses :
        LET self == clients[c]
            args == [additional_data |-> callerData, folder_id |-> folder_id,
                     folder_uid |-> folder_uid, message |-> message,
                     overwrite |-> overwrite]
            heap == CreateDashboardHeap(callerData, folder_id, folder_uid, message, overwrite)
            request == CreateDashboardRequest(self, heap[PayloadObject("additional_data")])
            msg == CreateDashboardMessage(heap["additional_data"])
        IN /\ Ready(c)
           /\ callerData' = heap["additional_data"]
           /\ IF msg.exc # ""
              THEN RaiseAfterRequest(c, "create_dashboard", args, request, response, msg.exc)
              ELSE Normalize(c, "create_dashboard", args, request, response, msg.text)

get_dashboard_by_uid(c) ==
    \E uid \in Uids, response \in Responses :
        /\ Ready(c)
        /\ Normalize(c, "get_dashboard_by_uid", [uid |-> uid],
                     GetDashboardByUidRequest(clients[c], uid), response,
                     "Dashboard with UID " \o uid \o " is found.")
        /\ UNCHANGED callerData

delete_dashboard_by_uid(c) ==
    \E uid \in Uids, response \in Responses :
        /\ Ready(c)
        /\ Normalize(c, "delete_dashboard_by_uid", [uid |-> uid],
                     DeleteDashboardByUidRequest(clients[c], uid), response,
                     "Dashboard with UID " \o uid \o " deleted successfully.")
        /\ UNCHANGED callerData

get_all_dashboards(c) ==
    \E response \in Responses :
        /\ Ready(c)
        /\ Normalize(c, "get_all_dashboards", <<>>,
                     GetAllDashboardsRequest(clients[c]), response,
                     "All dashboards are returned.")
        /\ UNCHANGED callerData

get_all_datasources(c) ==
    \E response \in Responses :
        /\ Ready(c)
        /\ Normalize(c, "get_all_datasources", <<>>,
                     GetAllDatasourcesRequest(clients[c]), response,
                     "All datasources are returned.")
        /\ UNCHANGED callerData

get_datasource_by_uid(c) ==
    \E uid \in Uids, response \in Responses :
        /\ Ready(c)
        /\ Normalize(c, "get_datasource_by_uid", [uid |-> uid],
                     GetDatasourceByUidRequest(clients[c], uid), response,
                     "Datasource with UID " \o uid \o " is returned.")
        /\ UNCHANGED callerData

get_datasource_by_name(c) ==
    \E name \in Names, response \in Responses :
        /\ Ready(c)
        /\ Normalize(c, "get_datasource_by_name", [name |-> name],
                     GetDatasourceByNameRequest(clients[c], name), response,
                     "Datasource with the name " \o name \o " is returned.")
        /\ UNCHANGED callerData

create_datasource(c) ==
    \E name \in Names, access \in AccessArgs, additional_data \in DatasourceExtras,
       response \in Responses :
        LET type_ == "prometheus"
            url == "http://prom:9090"
            payload == CreateDatasourcePayload(name, type_, url, access, additional_data)
        IN /\ Ready(c)
           /\ Normalize(c, "create_datasource",
                        [name |-> name, type_ |-> type_, url |-> url, access |-> access,
                         additional_data |-> additional_data],
                        CreateDatasourceRequest(clients[c], payload), response,
                        "The datasource with the name " \o name \o " is created.")
           /\ UNCHANGED callerData

delete_datasource_by_uid(c) ==
    \E uid \in Uids, response \in Responses :
        /\ Ready(c)
        /\ Normalize(c, "delete_datasource_by_uid", [uid |-> uid],
                     DeleteDatasourceByUidRequest(clients[c], uid), response,
                     "The datasource with UID " \o uid \o " is deleted.")
        /\ UNCHANGED callerData

get_datasource_health_by_uid(c) ==
    \E uid \in Uids, response \in Responses :
        /\ Ready(c)
        /\ Normalize(c, "get_datasource_health_by_uid", [uid |-> uid],
                     GetDatasourceHealthByUidRequest(clients[c], uid), response,
                     "Datasource health is returned.")
        /\ UNCHANGED callerData

get_all_folders(c) ==
    \E limit \in Limits, response \in Responses :
        /\ Ready(c)
        /\ Normalize(c, "get_all_folders", [limit |-> limit],
                     GetAllFoldersRequest(clients[c], limit), response,
                     "All folders are returned.")
        /\ UNCHANGED callerData

get_folder_by_uid(c) ==
    \E uid \in Uids, response \in Responses :
        /\ Ready(c)
        /\ Normalize(c, "get_folder_by_uid", [uid |-> uid],
                     GetFolderByUidRequest(clients[c], uid), response,
                     "The folder with UID " \o uid \o " is returned.")
        /\ UNCHANGED callerData

create_folder(c) ==
    \E title \in Titles, uid \in FolderUidArgs, response \in Responses :
        /\ Ready(c)
        /\ Normalize(c, "create_folder", [title |-> title, uid |-> uid],
                     CreateFolderRequest(clients[c], CreateFolderPayload(title, uid)),
                     response, "A folder with the title " \o title \o " is created.")
        /\ UNCHANGED callerData

delete_folder_by_uid(c) ==
    \E uid \in Uids, response \in Responses :
        /\ Ready(c)
        /\ Normalize(c, "delete_folder_by_uid", [uid |-> uid],
                     DeleteFolderByUidRequest(clients[c], uid), response,
                     "The folder with UID " \o uid \o " is deleted.")
        /\ UNCHANGED callerData

Next ==
    \/ \E c \in ClientIds : Construct(c)
    \/ CallerRebind
    \/ Return
    \/ \E c \in ClientIds : create_dashboard(c)
    \/ \E c \in ClientIds : get_dashboard_by_uid(c)
    \/ \E c \in ClientIds : delete_dashboard_by_uid(c)
    \/ \E c \in ClientIds : get_all_dashboards(c)
    \/ \E c \in ClientIds : get_all_datasources(c)
    \/ \E c \in ClientIds : get_datasource_by_uid(c)
    \/ \E c \in ClientIds : get_datasource_by_name(c)
    \/ \E c \in ClientIds : create_datasource(c)
    \/ \E c \in ClientIds : delete_datasource_by_uid(c)
    \/ \E c \in ClientIds : get_datasource_health_by_uid(c)
    \/ \E c \in ClientIds : get_all_folders(c)
    \/ \E c \in ClientIds : get_folder_by_uid(c)
    \/ \E c \in ClientIds : create_folder(c)
    \/ \E c \in ClientIds : delete_folder_by_uid(c)

Spec == Init /\ [][Next]_vars

----------------------------------------------------------------------------
(* Properties *)

\* the completed call handed its response to _enrich_error_response
Normalized == last.op # "none" /\ last.reached

Status == last.response.status_code
Body == last.response.body

\* the keys of the JSON object on the wire
BodyKeys == {Body.pairs[i][1] : i \in DOMAIN Body.pairs}

\* C1 as the spec states it: a response with a zero-byte body, whatever its
\* status, is normalized to exactly {statusCode: <status>}.
C1_EmptyBody_StatusCodeKey ==
    (Normalized /\ ContentLength(Body) = 0) =>
        /\ last.outcome = "returned"
        /\ last.result = PyDict([statusCode |-> PyInt(Status)])

\* C1 amended: a response with a zero-byte body, whatever its status (200
\* included), is normalized to exactly the one-entry mapping
\* {customStatusCode: <status>}, with no other key.
C1_EmptyBody ==
    (Normalized /\ ContentLength(Body) = 0) =>
        /\ last.outcome = "returned"
        /\ IsDict(last.result)
        /\ DOMAIN last.result[2] = {"customStatusCode"}
        /\ last.result[2]["customStatusCode"] = PyInt(Status)

C1_Witness ==
    /\ Normalized
    /\ ContentLength(Body) = 0
    /\ Status = 200
    /\ last.outcome = "returned"

\* C2: a response with status other than 200 and a non-empty body that decodes
\* as a JSON mapping B is normalized to B with customStatusCode set to the
\* status; every other key of B keeps its value and no other key is added.
C2_HttpFailure ==
    (Normalized /\ Status # 200 /\ Body.kind = "object") =>
        LET B == JsonDecode(Body)[2]
        IN /\ last.outcome = "returned"
           /\ IsDict(last.result)
           /\ DOMAIN last.result[2] = (DOMAIN B) \cup {"customStatusCode"}
           /\ last.result[2]["customStatusCode"] = PyInt(Status)
           /\ \A k \in (DOMAIN B) \ {"customStatusCode"} : last.result[2][k] = B[k]

C2_Witness ==
    /\ Normalized
    /\ Status = 201
    /\ Body.kind = "object"
    /\ "message" \in BodyKeys
    /\ last.outcome = "returned"
    /\ "message" \in DOMAIN last.result[2]

\* C3: a response with status exactly 200 and a non-empty JSON body is
\* normalized to the decoded body verbatim: neither statusCode nor
\* customStatusCode is injected, each is in the result only if the body had it.
C3_Success ==
    (Normalized /\ Status = 200 /\ Body.kind \in {"object", "array"}) =>
        /\ last.outcome = "returned"
        /\ last.result = JsonDecode(Body)
        /\ Body.kind = "object" =>
              \A k \in {"statusCode", "customStatusCode"} :
                  k \in DOMAIN last.result[2] <=> k \in BodyKeys

C3_Witness ==
    /\ Normalized
    /\ Status = 200
    /\ Body.kind = "object"
    /\ "customStatusCode" \notin BodyKeys
    /\ last.outcome = "returned"
    /\ "id" \in DOMAIN last.result[2]

\* a call has completed and its outcome is in the caller's hands
Completed == last.op # "none"

\* the JSON payload of the call's request
Payload == last.requests[1].json[2]

\* C4: every public operation whose round trip completes, with any status and
\* a body that is empty or a JSON mapping, returns a normalized-result mapping
\* and raises nothing, create_dashboard included whatever mapping it was given.
C4_SingleResultChannel ==
    (Completed /\ Body.kind \in {"empty", "object"}) =>
        /\ last.outcome = "returned"
        /\ IsDict(last.result)

OptionalFields ==
    { <<"folder_id", "folderId">>, <<"folder_uid", "folderUid">>,
      <<"message", "message">>, <<"overwrite", "overwrite">> }

\* C5 as the spec states it: each optional field of create_dashboard is in the
\* payload if and only if the caller supplied its argument.
C5_OptionalIffSupplied ==
    (Completed /\ last.op = "create_dashboard") =>
        \A f \in OptionalFields : f[2] \in DOMAIN Payload <=> last.args[f[1]] # None

\* C5 amended: each optional field of create_dashboard is in the payload if
\* and only if the caller supplied its argument (0, '' and False count as
\* supplied) or the dashboard-definition mapping itself has that key; a
\* supplied argument is the value sent, otherwise the mapping's value is; the
\* four fields are decided independently.
C5_OptionalIffSuppliedOrInDefinition ==
    (Completed /\ last.op = "create_dashboard") =>
        LET D == last.args.additional_data
        IN /\ \A f \in OptionalFields :
                /\ f[2] \in DOMAIN Payload <=> (last.args[f[1]] # None \/ f[2] \in DOMAIN D)
                /\ last.args[f[1]] # None => Payload[f[2]] = last.args[f[1]]
                /\ (last.args[f[1]] = None /\ f[2] \in DOMAIN D) => Payload[f[2]] = D[f[2]]
           /\ \A k \in DOMAIN D : k \in DOMAIN Payload

C5_Witness ==
    /\ Completed
    /\ last.op = "create_dashboard"
    /\ last.args.folder_id = PyInt(0)
    /\ last.args.overwrite = PyBool(FALSE)
    /\ last.args.message = None
    /\ "folderId" \in DOMAIN Payload
    /\ "overwrite" \in DOMAIN Payload
    /\ "message" \notin DOMAIN Payload

\* C6: the create_datasource payload always has name, type, url and access;
\* access is "proxy" when neither the access argument nor the extra fields
\* give one; every extra field is in the payload with its value, replacing a
\* required field of the same key.
C6_DatasourcePayload ==
    (Completed /\ last.op = "create_datasource") =>
        LET a == last.args
            extra == IF a.additional_data = None THEN EmptyDict ELSE a.additional_data[2]
        IN /\ {"name", "type", "url", "access"} \subseteq DOMAIN Payload
           /\ (a.access = Omitted /\ "access" \notin DOMAIN extra) =>
                  Payload["access"] = PyStr("proxy")
           /\ \A k \in DOMAIN extra : Payload[k] = extra[k]
           /\ "name" \notin DOMAIN extra => Payload["name"] = PyStr(a.name)
           /\ DOMAIN Payload = {"name", "type", "url", "access"} \cup DOMAIN extra

C6_Witness ==
    /\ Completed
    /\ last.op = "create_datasource"
    /\ last.args.access = PyStr("direct")
    /\ last.args.additional_data = PyDict([access |-> PyStr("server")])
    /\ Payload["access"] = PyStr("server")

\* C7: the create_folder payload has title with the supplied title, has uid
\* if and only if a uid was supplied (then with that value), and no other key.
C7_FolderPayload ==
    (Completed /\ last.op = "create_folder") =>
        /\ DOMAIN Payload = {"title"} \cup (IF last.args.uid # None THEN {"uid"} ELSE {})
        /\ Payload["title"] = PyStr(last.args.title)
        /\ last.args.uid # None => Payload["uid"] = last.args.uid

C7_Witness ==
    /\ Completed
    /\ last.op = "create_folder"
    /\ last.args.uid = None
    /\ DOMAIN Payload = {"title"}

\* the interface table: method and path of each operation
TableMethod(op) ==
    CASE op \in {"create_dashboard", "create_datasource", "create_folder"} -> "POST"
      [] op \in {"delete_dashboard_by_uid", "delete_datasource_by_uid",
                 "delete_folder_by_uid"} -> "DELETE"
      [] OTHER -> "GET"

TablePath(op, args) ==
    CASE op = "create_dashboard" -> "/api/dashboards/db"
      [] op = "get_dashboard_by_uid" -> "/api/dashboards/uid/" \o args.uid
      [] op = "delete_dashboard_by_uid" -> "/api/dashboards/uid/" \o args.uid
      [] op = "get_all_dashboards" -> "/api/search?type=dash-db"
      [] op = "get_all_datasources" -> "/api/datasources"
      [] op = "get_datasource_by_uid" -> "/api/datasources/uid/" \o args.uid
      [] op = "get_datasource_by_name" -> "/api/datasources/name/" \o args.name
      [] op = "create_datasource" -> "/api/datasources/"
      [] op = "delete_datasource_by_uid" -> "/api/datasources/uid/" \o args.uid
      [] op = "get_datasource_health_by_uid" ->
             "/api/datasources/uid/" \o args.uid \o "/health"
      [] op = "get_all_folders" -> "/api/folders?limit=" \o IntStr(args.limit)
      [] op = "get_folder_by_uid" -> "/api/folders/" \o args.uid
      [] op = "create_folder" -> "/api/folders"
      [] op = "delete_folder_by_uid" -> "/api/folders/" \o args.uid

\* C8: every call issues exactly one HTTP request, also after an empty or
\* non-200 response; it has the method of the operation's row of the interface
\* table, the row's path appended to the client's base URL, the header
\* Authorization: Bearer <token> and the client's TLS-verify flag.
C8_OneRoundTrip ==
    Completed =>
        LET self == clients[last.client]
            request == last.requests[1]
        IN /\ Len(last.requests) = 1
           /\ request.method = TableMethod(last.op)
           /\ request.url = self.url \o TablePath(last.op, last.args)
           /\ DOMAIN request.headers = {"Authorization"}
           /\ request.headers["Authorization"] = "Bearer " \o self.token
           /\ request.verify = self.verify

C8_Witness ==
    /\ Completed
    /\ last.op = "get_dashboard_by_uid"
    /\ clients[last.client].token = "abc123"
    /\ Status = 404
    /\ Len(last.requests) = 1
    /\ last.requests[1].method = "GET"
    /\ last.requests[1].url = "https://grafana.example.com/api/dashboards/uid/xyz"
    /\ last.requests[1].headers["Authorization"] = "Bearer abc123"

\* C9: the log records a call writes (their number, severity, hostname and
\* message, to the file and to the console) are those the same call writes in
\* a process where no other client was ever constructed.
C9_IndependentClients ==
    Completed =>
        LET solo == AddHandlers(<<>>)
        IN IF last.file = <<>>
           THEN last.console = <<>>
           ELSE /\ last.file = Emit(solo, "file", last.file[1])
                /\ last.console = Emit(solo, "console", last.file[1])

\* C10: create_dashboard leaves the caller's dashboard-definition mapping as
\* it was, whatever optional arguments were supplied, so a call without
\* folder_uid sends folderUid only if the mapping itself has it.
C10_CallerMappingUnchanged ==
    [][(last'.op = "create_dashboard" /\ last.op = "none") =>
          /\ callerData' = callerData
          /\ last'.args.folder_uid = None =>
                (("folderUid" \in DOMAIN last'.requests[1].json[2])
                     <=> "folderUid" \in DOMAIN callerData)]_vars

C10_Witness ==
    /\ Completed
    /\ last.op = "create_dashboard"
    /\ last.args.folder_uid # None
    /\ "folderUid" \in DOMAIN Payload
    /\ "folderUid" \notin DOMAIN callerData
    /\ callerData = last.args.additional_data

====
